---- MODULE Spec2Model ----
(***************************************************************************)
(* CosmostationClient (src/unnamed/part_000, lines 30-401): the wallet     *)
(* adapter that dispatches connect / addChain / switchChain / getAccounts  *)
(* / sign / verify / signAndBroadcast / disconnect on the namespace, and   *)
(* the on/off event bridge with its eventMap.                              *)
(*                                                                         *)
(* One adapter call is followed from its synchronous part to its outcome.  *)
(* The wallet's native request() is asynchronous: a request that was       *)
(* issued is settled by the wallet in a later task (NativeResolve,         *)
(* NativeReject), in any order.  A step of the model is one task of the    *)
(* JavaScript event loop together with the promise jobs it leaves behind.  *)
(***************************************************************************)
EXTENDS Integers, Sequences, FiniteSets, TLC

\* ------------------------------------------------------------------ bounds
MaxEntries == 2         \* namespaces in one AuthRange
MaxChainIds == 2        \* chain IDs in a cosmos entry
MaxOn == 3              \* calls of on() in one behaviour
MaxOff == 3             \* calls of off() in one behaviour

\* ------------------------------------------------------------------ inputs
KnownNamespaces == {"cosmos", "ethereum", "aptos", "sui"}
Namespaces == KnownNamespaces \cup {"solana"}
ChainIdSet == {"cosmoshub-4", "osmosis-1"}
Undefined == "<undefined>"
ChainIdArgs == {Undefined, "", "cosmoshub-4"}

SeqsUpTo(S, n) == UNION {[1..k -> S] : k \in 0..n}

\* One entry of an AuthRange: the namespace key and its { chainIds }.
Entries ==
  {[ns |-> n, hasChainIds |-> FALSE, chainIds |-> <<>>] : n \in Namespaces}
  \cup {[ns |-> "cosmos", hasChainIds |-> TRUE, chainIds |-> c] :
          c \in SeqsUpTo(ChainIdSet, MaxChainIds)}

\* An AuthRange is an object: its keys are distinct, Object.entries keeps
\* their insertion order.
AuthRanges ==
  {a \in SeqsUpTo(Entries, MaxEntries) :
     \A i, j \in DOMAIN a : i # j => a[i].ns # a[j].ns}

\* Documents handed to sign / verify / signAndBroadcast.
Docs ==
  {[type |-> "string", shape |-> "message", memo |-> "m0"],
   [type |-> "object", shape |-> "direct", memo |-> "m0"],
   [type |-> "object", shape |-> "amino", memo |-> "m0"],
   [type |-> "object", shape |-> "ethTx", memo |-> "m0"]}

NoOptions == [given |-> FALSE, memo |-> FALSE, fee |-> FALSE]
OptionSet == {NoOptions, [given |-> TRUE, memo |-> TRUE, fee |-> FALSE]}

NativeErrors == {"User rejected the request."}

EventTypes == {"accountChanged", "chainChanged"}
Listeners == {"L1", "L2"}
\* eventMap.get(type)?.get(listener) of a pair that was never set.
NoEvent == 0

\* ------------------------------------------------------------------ state
VARIABLES
  call,        \* the adapter call being followed ("idle" before it)
  branches,    \* the async bodies of the call, one per AuthRange entry
  reqs,        \* native requests issued to the wallet, in issue order
  outcome,     \* the promise (or value) the caller holds
  reordered,   \* history: a request was settled before one issued earlier
  eventMap,    \* CosmostationClient.eventMap: <<type, listener>> -> handle
  nextEvent,   \* handles the wallet's cosmos.on has returned so far
  nativeOff,   \* handles passed to the wallet's cosmos.off, in call order
  lastCall     \* history: the last of on/off called for <<type, listener>>

vars == <<call, branches, reqs, outcome, reordered, eventMap, nextEvent, nativeOff, lastCall>>
callVars == <<call, branches, reqs, outcome, reordered>>
eventVars == <<eventMap, nextEvent, nativeOff, lastCall>>

Idle ==
  [op |-> "idle", authRange |-> <<>>, namespace |-> "",
   doc |-> [type |-> "string", shape |-> "message", memo |-> "m0"],
   chainId |-> Undefined, options |-> NoOptions]

NoOutcome == [kind |-> "none", val |-> <<>>, err |-> "none"]
Fulfilled(v) == [kind |-> "fulfilled", val |-> v, err |-> "none"]
Rejected(e) == [kind |-> "rejected", val |-> <<>>, err |-> e]
\* A plain (non-promise) return value.
Returned(v) == [kind |-> "returned", val |-> v, err |-> "none"]

\* ---------------------------------------------------------------- branches
\* st: pending | fulfilled | rejected.  slots: the inner Promise.all of the
\* cosmos getAccounts branch, one slot per chain ID (<<>> while unsettled).
\* tmp: suiAddrs between the two sui requests.
BrPending(slots) ==
  [st |-> "pending", val |-> <<>>, err |-> "none", slots |-> slots, tmp |-> <<>>]
BrFulfilled(v) ==
  [st |-> "fulfilled", val |-> v, err |-> "none", slots |-> <<>>, tmp |-> <<>>]
BrRejected(e) ==
  [st |-> "rejected", val |-> <<>>, err |-> e, slots |-> <<>>, tmp |-> <<>>]

\* A request as the body issues it; branch, st and resp are added on issue.
Rq(method, params, slot, awaited) ==
  [method |-> method, params |-> params, slot |-> slot, awaited |-> awaited]

Start(br, rq) == [br |-> br, rq |-> rq]

RECURSIVE Flat(_)
Flat(ss) == IF ss = <<>> THEN <<>> ELSE Head(ss) \o Flat(Tail(ss))

\* ------------------------------------------------------- imported helpers
HexDigits ==
  <<"0", "1", "2", "3", "4", "5", "6", "7", "8", "9", "a", "b", "c", "d", "e", "f">>

\* getStringFromUint8Array(bytes, 'hex'): two hex digits per byte.
getStringFromUint8Array(bytes) ==
  Flat([i \in DOMAIN bytes |->
          <<HexDigits[(bytes[i] \div 16) + 1], HexDigits[(bytes[i] % 16) + 1]>>])

isCosmosDirectDoc(doc) == doc.type = "object" /\ doc.shape = "direct"
isEthTransactionDoc(doc) == doc.type = "object" /\ doc.shape = "ethTx"

\* Fault: chainId === undefined in place of !chainId.
NoChainIdUndefinedOnly(chainId) == chainId = Undefined

\* A falsy chainId argument: undefined or the empty string.
NoChainId(chainId) == chainId = Undefined \/ chainId = ""

SignerAddress == "signer1"
SignatureArg == [publicKey |-> [value |-> "pk1"], signature |-> [value |-> "sig0"]]
ChainInfo == [chainName |-> "newchain"]

\* --------------------------------------------------------------- the wallet
\* What the wallet may answer to a request it fulfils.
WalletKey(chainName) ==
  [name |-> "wallet1",
   address |-> IF chainName = "cosmoshub-4" THEN "cosmos1abc" ELSE "osmo1abc",
   publicKey |-> <<2, 171>>, isLedger |-> FALSE, algo |-> "secp256k1"]

\* The wallet may let the user edit the memo before signing.
EditedDoc(doc) == [doc EXCEPT !.memo = "m1"]

Responses(r) ==
  CASE r.method = "cos_requestAccount" -> {WalletKey(r.params.chainName)}
    [] r.method = "eth_requestAccounts" -> {<<"0xa1">>, <<"0xa1", "0xb2">>}
    [] r.method = "aptos_account" -> {[address |-> "0xapt1", publicKey |-> "0xaptpk"]}
    [] r.method = "sui_getAccounts" -> {<<"0xsui1", "0xsui2">>}
    [] r.method = "sui_getPublicKey" -> {"0xsuipk"}
    [] r.method = "cos_signMessage" ->
         {[pub_key |-> "pk1", signature |-> s] : s \in {"sigA", "sigB"}}
    [] r.method \in {"cos_signDirect", "cos_signAmino"} ->
         {[pub_key |-> "pk1", signature |-> "sigA", signed_doc |-> d] :
            d \in {r.params.doc, EditedDoc(r.params.doc)}}
    [] r.method \in {"eth_sign", "eth_signTransaction"} -> {[result |-> "0xsig"]}
    [] r.method = "eth_signTypedData_v4" -> {"0xsig"}
    [] r.method = "cos_verifyMessage" -> BOOLEAN
    [] r.method = "sui_signAndExecuteTransaction" ->
         {[effects |-> [transactionDigest |-> "digest1"]]}
    [] OTHER -> {"ok"}

\* ------------------------------------------------- bodies: synchronous part
\* Each body runs to its first await (or to its return): the branch it
\* leaves and the native requests it issued on the way.

\* Fault: connect whose default case returns instead of rejecting.
connectBranchSilentDefault(e) ==
  CASE e.ns = "aptos" ->
         Start(BrPending(<<>>), <<Rq("aptos_connect", <<>>, 0, TRUE)>>)
    [] e.ns = "sui" ->
         Start(BrPending(<<>>), <<Rq("sui_connect", <<>>, 0, TRUE)>>)
    [] OTHER -> Start(BrFulfilled(<<>>), <<>>)

\* connect, the async arrow of lines 51-62.
connectBranch(e) ==
  CASE e.ns = "aptos" ->
         Start(BrPending(<<>>), <<Rq("aptos_connect", <<>>, 0, TRUE)>>)
    [] e.ns = "sui" ->
         Start(BrPending(<<>>), <<Rq("sui_connect", <<>>, 0, TRUE)>>)
    [] OTHER -> Start(BrRejected("Unmatched namespace."), <<>>)

\* addChain: the request is issued and its promise dropped.
addChainBody(namespace, chainInfo) ==
  CASE namespace = "cosmos" ->
         Start(BrFulfilled(<<>>), <<Rq("cos_addChain", chainInfo, 0, FALSE)>>)
    [] namespace = "ethereum" ->
         Start(BrFulfilled(<<>>), <<Rq("wallet_addEthereumChain", chainInfo, 0, FALSE)>>)
    [] OTHER -> Start(BrRejected("Unmatched namespace."), <<>>)

\* switchChain is not async: the ethereum case returns undefined itself.
switchChainBody(namespace, chainId) ==
  CASE namespace = "ethereum" ->
         Start(BrFulfilled(<<>>),
               <<Rq("wallet_switchEthereumChain", <<[chainId |-> chainId]>>, 0, FALSE)>>)
    [] OTHER -> Start(BrRejected("Unmatched namespace."), <<>>)

\* Fault: getAccounts that takes missing chainIds for an empty list.
getAccountsBranchNoChainIdsCheck(e) ==
  CASE e.ns = "cosmos" ->
         IF e.chainIds = <<>>
           THEN Start(BrFulfilled(<<>>), <<>>)
           ELSE Start(BrPending([i \in DOMAIN e.chainIds |-> <<>>]),
                      [i \in DOMAIN e.chainIds |->
                         Rq("cos_requestAccount", [chainName |-> e.chainIds[i]], i, TRUE)])
    [] e.ns = "ethereum" ->
         Start(BrPending(<<>>), <<Rq("eth_requestAccounts", <<>>, 0, TRUE)>>)
    [] e.ns = "aptos" ->
         Start(BrPending(<<>>), <<Rq("aptos_account", <<>>, 0, TRUE)>>)
    [] e.ns = "sui" ->
         Start(BrPending(<<>>), <<Rq("sui_getAccounts", <<>>, 0, TRUE)>>)
    [] OTHER -> Start(BrRejected("Unmatched namespace."), <<>>)

\* getAccounts, the async arrow of lines 100-190.
getAccountsBranch(e) ==
  CASE e.ns = "cosmos" ->
         IF ~e.hasChainIds
           THEN Start(BrRejected("No chainIds provided."), <<>>)
           ELSE IF e.chainIds = <<>>
             THEN Start(BrFulfilled(<<>>), <<>>)
             ELSE Start(BrPending([i \in DOMAIN e.chainIds |-> <<>>]),
                        [i \in DOMAIN e.chainIds |->
                           Rq("cos_requestAccount", [chainName |-> e.chainIds[i]], i, TRUE)])
    [] e.ns = "ethereum" ->
         Start(BrPending(<<>>), <<Rq("eth_requestAccounts", <<>>, 0, TRUE)>>)
    [] e.ns = "aptos" ->
         Start(BrPending(<<>>), <<Rq("aptos_account", <<>>, 0, TRUE)>>)
    [] e.ns = "sui" ->
         Start(BrPending(<<>>), <<Rq("sui_getAccounts", <<>>, 0, TRUE)>>)
    [] OTHER -> Start(BrRejected("Unmatched namespace."), <<>>)

\* The native method of a structured cosmos doc (line 229).
cosmosSignMethod(doc) ==
  IF isCosmosDirectDoc(doc) THEN "cos_signDirect" ELSE "cos_signAmino"

\* The native method of an ethereum doc (lines 254-287).
ethereumSignMethod(doc) ==
  IF doc.type = "string" THEN "eth_sign"
  ELSE IF isEthTransactionDoc(doc) THEN "eth_signTransaction"
  ELSE "eth_signTypedData_v4"

signBody(namespace, doc, signerAddress, chainId, options) ==
  CASE namespace = "cosmos" ->
         IF NoChainId(chainId)
           THEN Start(BrRejected("ChainId not provided."), <<>>)
           ELSE IF doc.type = "string"
             THEN Start(BrPending(<<>>),
                        <<Rq("cos_signMessage",
                             [chainName |-> chainId, signer |-> signerAddress, message |-> doc],
                             0, TRUE)>>)
             ELSE Start(BrPending(<<>>),
                        <<Rq(cosmosSignMethod(doc),
                             [chainName |-> chainId, doc |-> doc,
                              isEditMemo |-> options.given /\ options.memo,
                              isEditFee |-> options.given /\ options.fee],
                             0, TRUE)>>)
    [] namespace = "ethereum" ->
         Start(BrPending(<<>>), <<Rq(ethereumSignMethod(doc), <<signerAddress, doc>>, 0, TRUE)>>)
    [] OTHER -> Start(BrRejected("Unmatched namespace."), <<>>)

verifyBody(namespace, doc, signature, signerAddress, chainId) ==
  CASE namespace = "cosmos" ->
         IF NoChainId(chainId)
           THEN Start(BrRejected("ChainId not provided."), <<>>)
           ELSE IF doc.type = "string"
             THEN Start(BrPending(<<>>),
                        <<Rq("cos_verifyMessage",
                             [chainName |-> chainId, signer |-> signerAddress, message |-> doc,
                              publicKey |-> signature.publicKey.value,
                              signature |-> signature.signature.value],
                             0, TRUE)>>)
             ELSE Start(BrRejected("Only support message string verification."), <<>>)
    [] OTHER -> Start(BrRejected("Unmatched namespace."), <<>>)

signAndBroadcastBody(namespace, doc) ==
  CASE namespace = "sui" ->
         Start(BrPending(<<>>), <<Rq("sui_signAndExecuteTransaction", doc, 0, TRUE)>>)
    [] OTHER -> Start(BrRejected("Unmatched namespace."), <<>>)

\* Fault: disconnect that issues cos_disconnect without awaiting it.
disconnectBranchNotAwaited(e) ==
  CASE e.ns = "cosmos" ->
         Start(BrFulfilled(<<>>), <<Rq("cos_disconnect", <<>>, 0, FALSE)>>)
    [] OTHER -> Start(BrRejected("Unmatched namespace."), <<>>)

\* disconnect, the async arrow of lines 349-359.
disconnectBranch(e) ==
  CASE e.ns = "cosmos" ->
         Start(BrPending(<<>>), <<Rq("cos_disconnect", <<>>, 0, TRUE)>>)
    [] OTHER -> Start(BrRejected("Unmatched namespace."), <<>>)

\* ------------------------------------------- bodies: after a native answer
\* The normalised accounts of lines 118-131, 138-146, 154-166, 174-186.
CosmosWalletAccount(chainId, key) ==
  [chainId |-> chainId, namespace |-> "cosmos", username |-> key.name,
   address |-> [value |-> key.address, encoding |-> "bech32"],
   publicKey |-> [value |-> getStringFromUint8Array(key.publicKey), encoding |-> "hex"],
   algo |-> key.algo]

EthereumAccount(address) ==
  [namespace |-> "ethereum", address |-> [value |-> address, encoding |-> "hex"]]

AptosAccount(resp) ==
  [namespace |-> "aptos", address |-> [value |-> resp.address, encoding |-> "hex"],
   publicKey |-> [value |-> resp.publicKey, encoding |-> "hex"]]

SuiAccount(address, suiPublicKey) ==
  [namespace |-> "sui", address |-> [value |-> address, encoding |-> "hex"],
   publicKey |-> [value |-> suiPublicKey, encoding |-> "hex"]]

\* Fault: results collected as they arrive (push on completion).
PlaceResultOnArrival(slots, slot, account) ==
  LET first == CHOOSE k \in DOMAIN slots :
                 /\ slots[k] = <<>>
                 /\ \A j \in DOMAIN slots : slots[j] = <<>> => k <= j
  IN  [slots EXCEPT ![first] = <<account>>]

\* Promise.all keeps each result at the index of its promise.
PlaceResult(slots, slot, account) == [slots EXCEPT ![slot] = <<account>>]

\* The inner Promise.all of the cosmos branch (lines 106-133): one more
\* chain's account has arrived.
cosmosAccountArrived(b, e, r, resp) ==
  LET slots == PlaceResult(b.slots, r.slot, CosmosWalletAccount(e.chainIds[r.slot], resp))
  IN  IF \A i \in DOMAIN slots : slots[i] # <<>>
        THEN Start(BrFulfilled(Flat(slots)), <<>>)
        ELSE Start([b EXCEPT !.slots = slots], <<>>)

\* Fault: sign that echoes the input doc as signedDoc in every flow.
signResultEchoingInput(c, r, resp) ==
  CASE r.method \in {"cos_signMessage", "cos_signDirect", "cos_signAmino"} ->
         [publicKey |-> resp.pub_key, signature |-> [value |-> resp.signature],
          signedDoc |-> c.doc]
    [] r.method \in {"eth_sign", "eth_signTransaction"} ->
         [signature |-> [value |-> resp.result], signedDoc |-> c.doc]
    [] OTHER -> [signature |-> [value |-> resp], signedDoc |-> c.doc]

\* The Signature sign returns (lines 216-222, 245-251, 259-264, ...).
signResult(c, r, resp) ==
  CASE r.method = "cos_signMessage" ->
         [publicKey |-> resp.pub_key, signature |-> [value |-> resp.signature],
          signedDoc |-> c.doc]
    [] r.method \in {"cos_signDirect", "cos_signAmino"} ->
         [publicKey |-> resp.pub_key, signature |-> [value |-> resp.signature],
          signedDoc |-> resp.signed_doc]
    [] r.method \in {"eth_sign", "eth_signTransaction"} ->
         [signature |-> [value |-> resp.result], signedDoc |-> c.doc]
    [] OTHER -> [signature |-> [value |-> resp], signedDoc |-> c.doc]

\* The body resumes after the await of request r, which the wallet fulfilled
\* with resp.
Resume(c, b, r, resp) ==
  CASE c.op \in {"connect", "disconnect"} -> Start(BrFulfilled(<<>>), <<>>)
    [] c.op = "getAccounts" /\ r.method = "cos_requestAccount" ->
         cosmosAccountArrived(b, c.authRange[r.branch], r, resp)
    [] c.op = "getAccounts" /\ r.method = "eth_requestAccounts" ->
         Start(BrFulfilled([i \in DOMAIN resp |-> EthereumAccount(resp[i])]), <<>>)
    [] c.op = "getAccounts" /\ r.method = "aptos_account" ->
         Start(BrFulfilled(<<AptosAccount(resp)>>), <<>>)
    [] c.op = "getAccounts" /\ r.method = "sui_getAccounts" ->
         Start([b EXCEPT !.tmp = resp], <<Rq("sui_getPublicKey", <<>>, 0, TRUE)>>)
    [] c.op = "getAccounts" /\ r.method = "sui_getPublicKey" ->
         Start(BrFulfilled([i \in DOMAIN b.tmp |-> SuiAccount(b.tmp[i], resp)]), <<>>)
    [] c.op = "sign" -> Start(BrFulfilled(<<signResult(c, r, resp)>>), <<>>)
    [] c.op = "verify" -> Start(BrFulfilled(<<resp>>), <<>>)
    [] c.op = "signAndBroadcast" ->
         Start(BrFulfilled(<<[hash |-> [value |-> resp.effects.transactionDigest]]>>), <<>>)
    [] OTHER -> Start(b, <<>>)

\* An awaited request failed: the await throws and the body rejects with the
\* wallet's reason.
Throw(b, err) == BrRejected(err)

\* ----------------------------------------------------------- Promise.all
\* Promise.all over the branches once the promise jobs of the synchronous
\* part have run: the first rejected branch rejects it, and with every branch
\* fulfilled it fulfils with the results in branch order.
AllAtStart(bs) ==
  IF \E i \in DOMAIN bs : bs[i].st = "rejected"
    THEN LET i == CHOOSE k \in DOMAIN bs :
                    /\ bs[k].st = "rejected"
                    /\ \A j \in DOMAIN bs : bs[j].st = "rejected" => k <= j
         IN  Rejected(bs[i].err)
    ELSE IF \A i \in DOMAIN bs : bs[i].st = "fulfilled"
      THEN Fulfilled([i \in DOMAIN bs |-> bs[i].val])
      ELSE NoOutcome

\* Fault: Promise.race in place of Promise.all: the first body to settle
\* settles the call.
AllAfterFirstSettled(bs, k) ==
  IF bs[k].st = "rejected" THEN Rejected(bs[k].err)
  ELSE IF bs[k].st = "fulfilled"
    THEN Fulfilled([i \in DOMAIN bs |-> bs[i].val])
    ELSE NoOutcome

\* Promise.all, still pending, after branch k settled or moved on.
AllAfter(bs, k) ==
  IF bs[k].st = "rejected" THEN Rejected(bs[k].err)
  ELSE IF \A i \in DOMAIN bs : bs[i].st = "fulfilled"
    THEN Fulfilled([i \in DOMAIN bs |-> bs[i].val])
    ELSE NoOutcome

\* What the caller gets from the Promise.all of the call.
\* connect and disconnect await it and return nothing; getAccounts returns
\* accountsList.flat().
FanOutResult(op, all) ==
  IF all.kind # "fulfilled" THEN all
  ELSE IF op = "getAccounts" THEN Fulfilled(Flat(all.val))
  ELSE Fulfilled(<<>>)

\* What the caller gets from a single body.
BodyResult(op, b) ==
  CASE b.st = "rejected" -> Rejected(b.err)
    [] b.st = "fulfilled" -> IF op = "switchChain" THEN Returned(b.val) ELSE Fulfilled(b.val)
    [] OTHER -> NoOutcome

FanOutOps == {"connect", "getAccounts", "disconnect"}

\* The requests a body issued, as the wallet holds them.
Issued(rq, k) ==
  [i \in DOMAIN rq |->
     [method |-> rq[i].method, params |-> rq[i].params, slot |-> rq[i].slot,
      awaited |-> rq[i].awaited, branch |-> k, st |-> "pending", resp |-> <<>>,
      err |-> "none"]]

\* ------------------------------------------------------------------ actions
Init ==
  /\ call = Idle
  /\ branches = <<>>
  /\ reqs = <<>>
  /\ outcome = NoOutcome
  /\ reordered = FALSE
  /\ eventMap = [p \in EventTypes \X Listeners |-> NoEvent]
  /\ nextEvent = 0
  /\ nativeOff = <<>>
  /\ lastCall = [p \in EventTypes \X Listeners |-> "none"]

\* The synchronous part of a fan-out call: Object.entries(authRange).map runs
\* every body to its first await, in entry order, then Promise.all.
FanOut(op, authRange, starts) ==
  /\ call' = [Idle EXCEPT !.op = op, !.authRange = authRange]
  /\ branches' = [i \in DOMAIN starts |-> starts[i].br]
  /\ reqs' = Flat([i \in DOMAIN starts |-> Issued(starts[i].rq, i)])
  /\ outcome' = FanOutResult(op, AllAtStart(branches'))
  /\ UNCHANGED <<reordered, eventVars>>

\* The synchronous part of a call with one body.
Single(c, start) ==
  /\ call' = c
  /\ branches' = <<start.br>>
  /\ reqs' = Issued(start.rq, 1)
  /\ outcome' = BodyResult(c.op, start.br)
  /\ UNCHANGED <<reordered, eventVars>>

connect(authRange) ==
  /\ call.op = "idle"
  /\ FanOut("connect", authRange, [i \in DOMAIN authRange |-> connectBranch(authRange[i])])

addChain(namespace, chainInfo) ==
  /\ call.op = "idle"
  /\ Single([Idle EXCEPT !.op = "addChain", !.namespace = namespace],
            addChainBody(namespace, chainInfo))

switchChain(namespace, chainId) ==
  /\ call.op = "idle"
  /\ Single([Idle EXCEPT !.op = "switchChain", !.namespace = namespace, !.chainId = chainId],
            switchChainBody(namespace, chainId))

getAccounts(authRange) ==
  /\ call.op = "idle"
  /\ FanOut("getAccounts", authRange,
            [i \in DOMAIN authRange |-> getAccountsBranch(authRange[i])])

sign(namespace, doc, signerAddress, chainId, options) ==
  /\ call.op = "idle"
  /\ Single([op |-> "sign", authRange |-> <<>>, namespace |-> namespace, doc |-> doc,
             chainId |-> chainId, options |-> options],
            signBody(namespace, doc, signerAddress, chainId, options))

verify(namespace, doc, signature, signerAddress, chainId) ==
  /\ call.op = "idle"
  /\ Single([Idle EXCEPT !.op = "verify", !.namespace = namespace, !.doc = doc,
                         !.chainId = chainId],
            verifyBody(namespace, doc, signature, signerAddress, chainId))

signAndBroadcast(namespace, doc) ==
  /\ call.op = "idle"
  /\ Single([Idle EXCEPT !.op = "signAndBroadcast", !.namespace = namespace, !.doc = doc],
            signAndBroadcastBody(namespace, doc))

disconnect(authRange) ==
  /\ call.op = "idle"
  /\ FanOut("disconnect", authRange,
            [i \in DOMAIN authRange |-> disconnectBranch(authRange[i])])

\* The caller's promise after branch k moved.
Settle(k) ==
  outcome' =
    IF outcome.kind # "none" THEN outcome
    ELSE IF call.op \in FanOutOps THEN FanOutResult(call.op, AllAfter(branches', k))
    ELSE BodyResult(call.op, branches'[k])

\* The wallet fulfils request i: the body waiting for it resumes.
NativeResolve(i, resp) ==
  /\ reqs[i].st = "pending"
  /\ LET r == reqs[i]
         b == branches[r.branch]
         next == IF r.awaited /\ b.st = "pending"
                   THEN Resume(call, b, r, resp)
                   ELSE Start(b, <<>>)
     IN  /\ branches' = [branches EXCEPT ![r.branch] = next.br]
         /\ reqs' = [reqs EXCEPT ![i].st = "ok", ![i].resp = resp]
                      \o Issued(next.rq, r.branch)
         /\ Settle(r.branch)
  /\ reordered' = (reordered \/ \E j \in 1..(i - 1) : reqs[j].st = "pending")
  /\ UNCHANGED <<call, eventVars>>

\* The wallet rejects request i.
NativeReject(i, err) ==
  /\ reqs[i].st = "pending"
  /\ LET r == reqs[i]
         b == branches[r.branch]
     IN  /\ branches' = [branches EXCEPT ![r.branch] =
                           IF r.awaited /\ b.st = "pending" THEN Throw(b, err) ELSE b]
         /\ reqs' = [reqs EXCEPT ![i].st = "failed", ![i].err = err]
         /\ Settle(r.branch)
  /\ reordered' = (reordered \/ \E j \in 1..(i - 1) : reqs[j].st = "pending")
  /\ UNCHANGED <<call, eventVars>>

\* on (lines 363-369): subscribe at the wallet, keep the handle it returns.
on(type, listener) ==
  /\ nextEvent < MaxOn
  /\ LET event == nextEvent + 1
     IN  /\ nextEvent' = event
         /\ eventMap' = [eventMap EXCEPT ![<<type, listener>>] = event]
  /\ lastCall' = [lastCall EXCEPT ![<<type, listener>>] = "on"]
  /\ UNCHANGED <<callVars, nativeOff>>

\* off (lines 371-376): unsubscribe with the stored handle, if any.
off(type, listener) ==
  /\ Len(nativeOff) < MaxOff
  /\ LET event == eventMap[<<type, listener>>]
     IN  nativeOff' = IF event # NoEvent THEN Append(nativeOff, event) ELSE nativeOff
  /\ lastCall' = [lastCall EXCEPT ![<<type, listener>>] = "off"]
  /\ UNCHANGED <<callVars, eventMap, nextEvent>>

\* One call is followed: the inputs of a call are drawn while the adapter is
\* idle (the guard of every call, taken before its inputs are enumerated).
Args(S) == IF call.op = "idle" THEN S ELSE {}

Next ==
  \/ \E a \in Args(AuthRanges) : connect(a)
  \/ \E n \in Args(Namespaces) : addChain(n, ChainInfo)
  \/ \E n \in Args(Namespaces) : switchChain(n, "0x1")
  \/ \E a \in Args(AuthRanges) : getAccounts(a)
  \/ \E n \in Args(Namespaces), d \in Docs, c \in ChainIdArgs, o \in OptionSet :
       sign(n, d, SignerAddress, c, o)
  \/ \E n \in Args(Namespaces), d \in Docs, c \in ChainIdArgs :
       verify(n, d, SignatureArg, SignerAddress, c)
  \/ \E n \in Args(Namespaces), d \in Docs : signAndBroadcast(n, d)
  \/ \E a \in Args(AuthRanges) : disconnect(a)
  \/ \E i \in DOMAIN reqs : \E resp \in Responses(reqs[i]) : NativeResolve(i, resp)
  \/ \E i \in DOMAIN reqs, err \in NativeErrors : NativeReject(i, err)

\* The adapter's calls and the wallet's answers.
Spec == Init /\ [][Next]_vars

EventNext ==
  \/ \E t \in EventTypes, l \in Listeners : on(t, l)
  \/ \E t \in EventTypes, l \in Listeners : off(t, l)

\* The event bridge: on and off in any order.  It shares no state with the
\* calls above.
EventSpec == Init /\ [][EventNext]_vars

\* ------------------------------------------------------------------ claims

\* C1: on(type, L) followed by off(type, L) passes the handle stored at
\* registration to the wallet's unsubscribe, once; an off(type, L) that
\* follows an off(type, L), with no on(type, L) between them, makes no call
\* to the wallet's unsubscribe.
C1_OffOnceThenNoCall ==
  [][\A t \in EventTypes, l \in Listeners :
       off(t, l) =>
         /\ lastCall[<<t, l>>] = "on" =>
              nativeOff' = Append(nativeOff, eventMap[<<t, l>>])
         /\ lastCall[<<t, l>>] = "off" => nativeOff' = nativeOff]_vars

\* The entries of the call's AuthRange, by index.
EntryAt(i) == call.authRange[i]
\* The requests a branch issued.
RequestsOf(b) == {i \in DOMAIN reqs : reqs[i].branch = b}
SingleOps == {"addChain", "switchChain", "sign", "verify", "signAndBroadcast"}

\* C2: an operation invoked for a namespace outside {cosmos, ethereum, aptos,
\* sui} is rejected with 'Unmatched namespace.' and asks the wallet nothing;
\* in a fan-out call the body of such a namespace rejects with it, the call
\* is rejected, and it is rejected with it when that is the only namespace.
C2_UnknownNamespaceRejected ==
  /\ (call.op \in SingleOps /\ call.namespace \notin KnownNamespaces) =>
       /\ outcome = Rejected("Unmatched namespace.")
       /\ reqs = <<>>
  /\ call.op \in FanOutOps =>
       \A i \in DOMAIN call.authRange :
         EntryAt(i).ns \notin KnownNamespaces =>
           /\ branches[i] = BrRejected("Unmatched namespace.")
           /\ RequestsOf(i) = {}
           /\ outcome.kind = "rejected"
           /\ Len(call.authRange) = 1 => outcome = Rejected("Unmatched namespace.")

\* C2's case: a disconnect over cosmos and an unknown namespace, rejected for
\* the unknown one although the wallet has answered the cosmos request.
C2_Witness ==
  /\ call.op = "disconnect"
  /\ Len(call.authRange) = 2
  /\ EntryAt(1).ns = "cosmos"
  /\ EntryAt(2).ns = "solana"
  /\ \E i \in DOMAIN reqs : reqs[i].st = "ok"
  /\ outcome = Rejected("Unmatched namespace.")

\* The cosmos entries of a getAccounts call that carry no chainIds.
CosmosWithoutChainIds ==
  {i \in DOMAIN call.authRange : EntryAt(i).ns = "cosmos" /\ ~EntryAt(i).hasChainIds}

\* C3 as stated: whatever else the AuthRange holds, getAccounts with a cosmos
\* entry without chainIds rejects with 'No chainIds provided.' and no native
\* request is issued.
C3_NoRequestWhateverElse ==
  (call.op = "getAccounts" /\ CosmosWithoutChainIds # {}) =>
    /\ outcome = Rejected("No chainIds provided.")
    /\ reqs = <<>>

\* C3 amended: getAccounts with a cosmos entry without chainIds is rejected;
\* the cosmos body rejects with 'No chainIds provided.' and issues no native
\* request; with cosmos the only entry the call is rejected with that reason
\* and the wallet is asked nothing.
C3_CosmosBranchRejectsUnasked ==
  (call.op = "getAccounts" /\ CosmosWithoutChainIds # {}) =>
    /\ outcome.kind = "rejected"
    /\ \A i \in CosmosWithoutChainIds :
         /\ branches[i] = BrRejected("No chainIds provided.")
         /\ RequestsOf(i) = {}
    /\ \A i \in DOMAIN reqs : reqs[i].method # "cos_requestAccount"
    /\ Len(call.authRange) = 1 =>
         /\ outcome = Rejected("No chainIds provided.")
         /\ reqs = <<>>

\* C3's case: ethereum before a cosmos entry without chainIds; the ethereum
\* request went out and the call is rejected for the missing chainIds.
C3_Witness ==
  /\ call.op = "getAccounts"
  /\ Len(call.authRange) = 2
  /\ EntryAt(1).ns = "ethereum"
  /\ 2 \in CosmosWithoutChainIds
  /\ Len(reqs) = 1
  /\ outcome = Rejected("No chainIds provided.")

\* The parts of C4 that do not speak of waiting: a fan-out call is rejected
\* once a body or a request of it has failed, and a fulfilled call has every
\* body fulfilled and returns every body's result, in order.
AllOrNothing ==
  /\ (\E b \in DOMAIN branches : branches[b].st = "rejected") => outcome.kind = "rejected"
  /\ (\E i \in DOMAIN reqs : reqs[i].st = "failed") => outcome.kind = "rejected"
  /\ outcome.kind = "fulfilled" =>
       /\ \A b \in DOMAIN branches : branches[b].st = "fulfilled"
       /\ call.op = "getAccounts" =>
            outcome.val = Flat([b \in DOMAIN branches |-> branches[b].val])

\* C4 as stated: connect, getAccounts and disconnect fail when a body fails,
\* return no partial result, and do not complete (fulfil or reject) while a
\* native request of the call is unsettled.
C4_CompletesOnlyWhenAllSettled ==
  call.op \in FanOutOps =>
    /\ AllOrNothing
    /\ outcome.kind # "none" => \A i \in DOMAIN reqs : reqs[i].st # "pending"

\* C4 amended: connect, getAccounts and disconnect fail when a body fails,
\* return no partial result, and do not fulfil while a native request of the
\* call is unsettled; a rejection does not wait for the other bodies.
C4_FulfilsOnlyWhenAllSettled ==
  call.op \in FanOutOps =>
    /\ AllOrNothing
    /\ outcome.kind = "fulfilled" => \A i \in DOMAIN reqs : reqs[i].st = "ok"

\* C4's case: a cosmos getAccounts over two chains, rejected by the failure of
\* one chain's request while the other is still with the wallet.
C4_Witness ==
  /\ call.op = "getAccounts"
  /\ Len(call.authRange) = 1
  /\ \E i \in DOMAIN reqs : reqs[i].st = "failed"
  /\ \E i \in DOMAIN reqs : reqs[i].st = "pending"
  /\ outcome.kind = "rejected"

\* C5: when a native request an operation issued has failed, the caller of
\* the operation holds a rejection, and the wallet's own reason when that
\* request is all the call consists of; addChain and switchChain included.
C5_NativeFailureSurfaces ==
  \A i \in DOMAIN reqs :
    reqs[i].st = "failed" =>
      /\ outcome.kind = "rejected"
      /\ (Len(branches) = 1 /\ Len(reqs) = 1) => outcome.err = reqs[i].err

\* The request of slot k of body b.
SlotRequest(b, k) == CHOOSE i \in RequestsOf(b) : reqs[i].slot = k

\* C6: getAccounts issues, for a cosmos entry with chainIds, one
\* cos_requestAccount per chain ID and nothing else; fulfilled, it returns
\* the bodies' results in AuthRange order, and the cosmos part holds one
\* account per chain ID in chainIds order, the i-th with chainId = chainIds[i],
\* the address the wallet gave for that request as bech32 and a hex publicKey,
\* in whatever order the wallet answered.
C6_OneAccountPerChainIdInOrder ==
  call.op = "getAccounts" =>
    /\ \A b \in DOMAIN call.authRange :
         (EntryAt(b).ns = "cosmos" /\ EntryAt(b).hasChainIds) =>
           /\ Cardinality(RequestsOf(b)) = Len(EntryAt(b).chainIds)
           /\ \A k \in DOMAIN EntryAt(b).chainIds :
                \E i \in RequestsOf(b) :
                  /\ reqs[i].slot = k
                  /\ reqs[i].method = "cos_requestAccount"
                  /\ reqs[i].params.chainName = EntryAt(b).chainIds[k]
    /\ outcome.kind = "fulfilled" =>
         /\ outcome.val = Flat([b \in DOMAIN branches |-> branches[b].val])
         /\ \A b \in DOMAIN call.authRange :
              EntryAt(b).ns = "cosmos" =>
                /\ Len(branches[b].val) = Len(EntryAt(b).chainIds)
                /\ \A k \in DOMAIN EntryAt(b).chainIds :
                     LET account == branches[b].val[k]
                     IN  /\ account.chainId = EntryAt(b).chainIds[k]
                         /\ account.address =
                              [value |-> reqs[SlotRequest(b, k)].resp.address,
                               encoding |-> "bech32"]
                         /\ account.publicKey.encoding = "hex"

\* C6's case: ethereum and cosmos over two different chains, every request
\* answered, one of them before a request issued earlier, the call fulfilled.
C6_Witness ==
  /\ call.op = "getAccounts"
  /\ Len(call.authRange) = 2
  /\ EntryAt(1).ns = "cosmos"
  /\ EntryAt(1).chainIds = <<"cosmoshub-4", "osmosis-1">>
  /\ EntryAt(2).ns = "ethereum"
  /\ reordered
  /\ outcome.kind = "fulfilled"
  /\ Len(outcome.val) >= 3

\* C7: the cosmos body of connect issues a native request and does not
\* reject by itself.
C7_ConnectCosmosAsksWallet ==
  call.op = "connect" =>
    \A i \in DOMAIN call.authRange :
      EntryAt(i).ns = "cosmos" =>
        /\ RequestsOf(i) # {}
        /\ branches[i].err # "Unmatched namespace."

\* C8: verify, signAndBroadcast and disconnect for a known namespace they
\* have no binding for, and verify on cosmos with a structured doc, are
\* rejected with a reason other than 'Unmatched namespace.'.
C8_UnsupportedOperationDistinct ==
  /\ (\/ call.op = "verify" /\ call.namespace \in KnownNamespaces \ {"cosmos"}
      \/ call.op = "verify" /\ call.namespace = "cosmos" /\ call.doc.type # "string"
      \/ call.op = "signAndBroadcast" /\ call.namespace \in KnownNamespaces \ {"sui"}) =>
       /\ outcome.kind = "rejected"
       /\ outcome.err # "Unmatched namespace."
  /\ call.op = "disconnect" =>
       \A i \in DOMAIN call.authRange :
         EntryAt(i).ns \in KnownNamespaces \ {"cosmos"} =>
           /\ branches[i].st = "rejected"
           /\ branches[i].err # "Unmatched namespace."

\* C9: sign for cosmos with no chainId (undefined or empty), whatever the
\* doc, is rejected with 'ChainId not provided.' and asks the wallet nothing.
C9_SignWithoutChainId ==
  (call.op = "sign" /\ call.namespace = "cosmos" /\ call.chainId \in {Undefined, ""}) =>
    /\ outcome = Rejected("ChainId not provided.")
    /\ reqs = <<>>

\* C9's case: a structured doc signed for cosmos with the empty chainId.
C9_Witness ==
  /\ call.op = "sign"
  /\ call.namespace = "cosmos"
  /\ call.chainId = ""
  /\ call.doc.type = "object"
  /\ outcome.kind = "rejected"

\* C10: sign for cosmos with a chainId issues one native request: for a
\* string doc cos_signMessage, for a direct doc cos_signDirect, for any other
\* structured doc cos_signAmino; fulfilled, signature.value is the response's
\* signature and signedDoc is the input string of a string doc and the
\* response's signed_doc of a structured one.
C10_SignMethodAndSignedDoc ==
  (call.op = "sign" /\ call.namespace = "cosmos" /\ call.chainId \notin {Undefined, ""}) =>
    /\ Len(reqs) = 1
    /\ reqs[1].method =
         IF call.doc.type = "string" THEN "cos_signMessage"
         ELSE IF call.doc.shape = "direct" THEN "cos_signDirect"
         ELSE "cos_signAmino"
    /\ outcome.kind = "fulfilled" =>
         /\ reqs[1].st = "ok"
         /\ outcome.val[1].signature.value = reqs[1].resp.signature
         /\ outcome.val[1].signedDoc =
              IF call.doc.type = "string" THEN call.doc ELSE reqs[1].resp.signed_doc

\* C10's case: a direct doc the wallet signed after the memo was edited.
C10_Witness ==
  /\ call.op = "sign"
  /\ call.namespace = "cosmos"
  /\ call.doc.shape = "direct"
  /\ reqs # <<>>
  /\ reqs[1].method = "cos_signDirect"
  /\ outcome.kind = "fulfilled"
  /\ outcome.val[1].signedDoc # call.doc

\* A request of the call is still with the wallet.
SomeRequestPending == \E i \in DOMAIN reqs : reqs[i].st = "pending"

\* C11 as stated: while a native request of the call is unsettled the call
\* has not completed, fan-out calls with a failed branch included.
C11_HungRequestHangsCall ==
  SomeRequestPending => outcome.kind = "none"

\* C11 amended: in connect, getAccounts, sign, verify, signAndBroadcast and
\* disconnect, while a native request of the call is unsettled the call has
\* not fulfilled; a single-namespace call has not completed at all, and a
\* fan-out call has completed only by the rejection of one of its bodies,
\* whose reason it carries.
C11_HungRequestNeverFulfils ==
  (call.op \notin {"addChain", "switchChain"} /\ SomeRequestPending) =>
    /\ outcome.kind \in {"none", "rejected"}
    /\ outcome.kind = "rejected" =>
         /\ call.op \in FanOutOps
         /\ \E b \in DOMAIN branches :
              /\ branches[b].st = "rejected"
              /\ branches[b].err = outcome.err

\* C11's case: connect over aptos and sui; the wallet rejected one request
\* and holds the other, and the call is rejected with the wallet's reason.
C11_Witness ==
  /\ call.op = "connect"
  /\ Len(call.authRange) = 2
  /\ Len(reqs) = 2
  /\ reqs[1].st = "pending"
  /\ reqs[2].st = "failed"
  /\ outcome = Rejected(reqs[2].err)

\* The handles the wallet's cosmos.on has returned.
NativeHandles == 1..nextEvent
\* The handles passed to the wallet's cosmos.off.
Unsubscribed == {nativeOff[i] : i \in DOMAIN nativeOff}
\* The handles the registry holds.
Registered == {eventMap[p] : p \in DOMAIN eventMap} \ {NoEvent}

\* C12: after off(type, L) the registry holds no handle for (type, L), so
\* with off the last call for every pair the registry is empty, and no handle
\* is passed to the wallet's unsubscribe twice.
C12_OffRemovesEntry ==
  /\ \A p \in DOMAIN eventMap : lastCall[p] = "off" => eventMap[p] = NoEvent
  /\ (\A p \in DOMAIN eventMap : lastCall[p] # "on") => Registered = {}
  /\ \A i, j \in DOMAIN nativeOff : i # j => nativeOff[i] # nativeOff[j]

\* C13: every native subscription that has not been unsubscribed is held by
\* the registry, so that an off can still release it.
C13_NoHandleLost ==
  \A h \in NativeHandles : h \in Unsubscribed \/ h \in Registered

====
